---- MODULE Spec2Model ----
(***************************************************************************)
(* Model of the resource discovery logic of the notebook UseCase_III:      *)
(* keyword filtering of registry records (getrow), deduplication by short  *)
(* name (getunique), the bibcode, author and table-name lookups and the    *)
(* query of the second catalogue; and                                      *)
(* of the image record selection of the notebook UseCase_II: the single    *)
(* galaxy steps and the galaxy loop.                                       *)
(*                                                                         *)
(* The state is the notebook kernel's namespace: one variable per global   *)
(* the cells assign, the set `bound` of the globals that are assigned so   *)
(* far, and the outcome `err` of the cell executed last.  One action per   *)
(* code cell.  Python strings are TLA+ strings; Python indices are kept    *)
(* 0-based, so result[i] is tap_services[i + 1].                           *)
(***************************************************************************)
EXTENDS Integers, Sequences, FiniteSets, TLC

VARIABLES
    tap_services,   \* the registry search result: a sequence of records
    keywords,       \* the keywords argument written in the getrow cell
    ind,            \* global ind while it holds a list of indices
    ind_int,        \* global ind while it holds the integer of the Raboud cell
    uniq_ind,       \* global uniq_ind
    bibcode,        \* global bibcode
    match,          \* global match: the indices np.where returned
    url,            \* global url: the access URLs of the matched rows
    idx,            \* global idx: the row counter of the lookup loop
    myidx,          \* global myidx
    myTAP,          \* global myTAP: a record of tap_services
    tables,         \* global tables: the table names in the service's order
    short_name,     \* global short_name
    tablename,      \* global tablename
    query,          \* global query
    printed,        \* the table names the last cell printed
    tables_service, \* the index of the record whose service.tables is in tables
    results,        \* global results: the record searched and the query sent
    resources,      \* global resources: the registry records of any service type
    author,         \* global author
    all_authors,    \* global all_authors: the creators of each record of tap_services
    all_accessurl,  \* global all_accessurl: the access_url of each record of tap_services
    allwise_image_table,    \* global allwise_image_table: a search result
    galex_image_table,      \* global galex_image_table
    sdss_image_table,       \* global sdss_image_table
    allwise_image_record,   \* global allwise_image_record
    galex_image_record,     \* global galex_image_record
    sdss_rband_record,      \* global sdss_rband_record
    loop_i,         \* global i: the index of the GALEX selection loop
    file_name,      \* global file_name: the record whose data was downloaded
    galaxy_subset,  \* global galaxy_subset: the number of its rows
    galaxy,         \* global galaxy: its index in galaxy_subset
    iter,           \* the galaxy loop's iterator: the index it yields next
    pc,             \* the galaxy loop's position, "idle" outside the loop cell
    galex_cutout,   \* global galex_cutout
    sdss_cutout,    \* global sdss_cutout
    allwise_cutout, \* global allwise_cutout
    fig,            \* global fig: the subplots added to the current figure
    bound,          \* names of the globals assigned so far
    last,           \* the cell executed last
    err             \* the exception the last cell raised, or "none"

filterVars == <<keywords, ind, uniq_ind>>
bibVars == <<bibcode, match, url, idx, myidx, myTAP, ind_int>>
tableVars == <<tables, short_name, tablename, query, printed>>
queryVars == <<tables_service, results>>
authorVars == <<resources, author, all_authors, all_accessurl>>
imageVars ==
    <<allwise_image_table, galex_image_table, sdss_image_table,
      allwise_image_record, galex_image_record, sdss_rband_record, loop_i,
      file_name, galaxy_subset, galaxy, iter, pc, galex_cutout, sdss_cutout,
      allwise_cutout, fig>>
vars ==
    <<tap_services, filterVars, bibVars, tableVars, queryVars, authorVars,
      imageVars, bound, last, err>>

----------------------------------------------------------------------------
(* Bounds and input pools *)

MaxRecords == 2
MaxDescLen == 2
MaxKwLen == 3
MaxIndexLen == 3
MaxDedupRecords == 3
MaxTables == 3
MaxImages == 2
MaxGalaxies == 4
MaxCreators == 2

DescChars == {"m", "c"}
KwChars == {"m", "c", " "}

RECURSIVE StrOfLen(_, _)
StrOfLen(A, n) ==
    IF n = 0 THEN {""} ELSE {s \o a : s \in StrOfLen(A, n - 1), a \in A}

StrUpTo(A, n) == UNION {StrOfLen(A, k) : k \in 0..n}

ShortNames == {"I/90", "I/9", "VI/90", "J/A+A/329/101"}
Bibcodes == {"1970MmRAS..73..125E", "1998A&A...329..101R", "0000ZZZ"}
SourceValues ==
    {"", "1970MmRAS..73..125E", "1998A&A...329..101R",
     "1970MmRAS..73..125E 1998A&A...329..101R"}
TableNames == {"I/90/catalog", "I/90/notes", "I/900/members", "VI/90/table"}

\* the table listings of a service: at most n names, none twice, in any order
Listings(n) ==
    {l \in UNION {[1..k -> TableNames] : k \in 0..n} :
        \A i, j \in 1..Len(l) : i # j => l[i] # l[j]}

Descriptions == StrUpTo(DescChars, MaxDescLen)

\* Python's None as the res_description of a record without a description;
\* no string of Descriptions equals it
None == "<None>"
KeywordStrings == StrUpTo(KwChars, MaxKwLen)

\* the index sequences of at most n valid indices of result
IndexSeqs(result, n) ==
    UNION {[1..k -> 0..(Len(result) - 1)] : k \in 0..n}

Urls == {"http://tapvizier.u-strasbg.fr/TAPVizieR/tap"}

Collections(descs, shorts, bibs, n) ==
    UNION {[1..k -> [res_description : descs, short_name : shorts,
                     source_value : bibs, access_url : Urls]] : k \in 0..n}

----------------------------------------------------------------------------
(* Python string operations *)

\* sub in s
Contains(sub, s) ==
    \E k \in 0..(Len(s) - Len(sub)) : SubSeq(s, k + 1, k + Len(sub)) = sub

\* a faulty variant of StartsWith: the containment test of the first lookup cell
StartsWithAnywhere(s, p) == Contains(p, s)

\* s.startswith(p)
StartsWith(s, p) ==
    Len(p) <= Len(s) /\ SubSeq(s, 1, Len(p)) = p

\* s.split(): the maximal runs of non-blank characters, in order
RECURSIVE SplitAcc(_, _, _)
SplitAcc(s, cur, acc) ==
    IF s = ""
    THEN IF cur = "" THEN acc ELSE Append(acc, cur)
    ELSE LET ch == SubSeq(s, 1, 1)
             rest == SubSeq(s, 2, Len(s))
         IN IF ch = " "
            THEN SplitAcc(rest, "", IF cur = "" THEN acc ELSE Append(acc, cur))
            ELSE SplitAcc(rest, cur \o ch, acc)

split(s) == SplitAcc(s, "", <<>>)

----------------------------------------------------------------------------
(* getrow *)

\* a faulty variant of KeysLoop: the loop ends at the first keyword found
RECURSIVE KeysLoopBreakOnMatch(_, _, _, _)
KeysLoopBreakOnMatch(keys, k, desc, n_match) ==
    IF k > Len(keys) THEN n_match
    ELSE IF Contains(keys[k], desc)
         THEN n_match + 1
         ELSE KeysLoopBreakOnMatch(keys, k + 1, desc, n_match)

\* the inner loop "for each in keys": n_match after the keys from k on
RECURSIVE KeysLoop(_, _, _, _)
KeysLoop(keys, k, desc, n_match) ==
    IF k > Len(keys) THEN n_match
    ELSE KeysLoop(keys, k + 1, desc,
                  IF Contains(keys[k], desc) THEN n_match + 1 ELSE n_match)

\* a faulty variant of RowLoop: a record is taken when any keyword matches
RECURSIVE RowLoopAnyKey(_, _, _, _, _)
RowLoopAnyKey(result, keys, i, n_match, acc) ==
    IF i >= Len(result) THEN acc
    ELSE LET n == KeysLoop(keys, 1, result[i + 1].res_description, n_match)
         IN RowLoopAnyKey(result, keys, i + 1, 0,
                          IF n >= 1 \/ n = Len(keys) THEN Append(acc, i) ELSE acc)

\* a faulty variant of RowLoop: n_match is not set back to 0 after a record
RECURSIVE RowLoopNoReset(_, _, _, _, _)
RowLoopNoReset(result, keys, i, n_match, acc) ==
    IF i >= Len(result) THEN acc
    ELSE LET n == KeysLoop(keys, 1, result[i + 1].res_description, n_match)
         IN RowLoopNoReset(result, keys, i + 1, n,
                           IF n = Len(keys) THEN Append(acc, i) ELSE acc)

\* a faulty variant of RowLoop: the index is appended once for every matching key
RECURSIVE RowLoopAppendPerKey(_, _, _, _, _)
RowLoopAppendPerKey(result, keys, i, n_match, acc) ==
    IF i >= Len(result) THEN acc
    ELSE LET n == KeysLoop(keys, 1, result[i + 1].res_description, n_match)
         IN RowLoopAppendPerKey(result, keys, i + 1, 0,
                                acc \o [k \in 1..n |-> i])

\* the outer loop "for i in range(len(result.to_table()))"
RECURSIVE RowLoop(_, _, _, _, _)
RowLoop(result, keys, i, n_match, acc) ==
    IF i >= Len(result) THEN acc
    ELSE LET n == KeysLoop(keys, 1, result[i + 1].res_description, n_match)
         IN RowLoop(result, keys, i + 1, 0,
                    IF n = Len(keys) THEN Append(acc, i) ELSE acc)

\* a faulty variant of getrow: the row loop starts at range(1, ...)
getrowFromOne(result, kw) == RowLoop(result, split(kw), 1, 0, <<>>)

getrow(result, kw) == RowLoop(result, split(kw), 0, 0, <<>>)

\* a faulty variant of getrowRaises: the description is tested before the loop
\* over the keys
getrowRaisesWithoutKeys(result, kw) ==
    \E i \in 1..Len(result) : result[i].res_description = None

\* "each in result[i].res_description" raises TypeError when the description
\* is None; it is evaluated for every record as soon as there is a key
getrowRaises(result, kw) ==
    /\ split(kw) # <<>>
    /\ \E i \in 1..Len(result) : result[i].res_description = None

----------------------------------------------------------------------------
(* getunique *)

\* a faulty variant of UniqueLoop: compares with the short name kept last only
RECURSIVE UniqueLoopAdjacent(_, _, _, _, _)
UniqueLoopAdjacent(result, I, i, names, unique_ind) ==
    IF i >= Len(I) THEN unique_ind
    ELSE LET short == result[I[i + 1] + 1].short_name
         IN IF names = <<>> \/ names[Len(names)] # short
            THEN UniqueLoopAdjacent(result, I, i + 1, Append(names, short),
                                    Append(unique_ind, I[i + 1]))
            ELSE UniqueLoopAdjacent(result, I, i + 1, names, unique_ind)

\* a faulty variant of UniqueLoop: the position i is appended, not ind[i]
RECURSIVE UniqueLoopAppendPosition(_, _, _, _, _)
UniqueLoopAppendPosition(result, I, i, names, unique_ind) ==
    IF i >= Len(I) THEN unique_ind
    ELSE LET short == result[I[i + 1] + 1].short_name
         IN IF \A k \in 1..Len(names) : names[k] # short
            THEN UniqueLoopAppendPosition(result, I, i + 1,
                     Append(names, short), Append(unique_ind, i))
            ELSE UniqueLoopAppendPosition(result, I, i + 1, names, unique_ind)

\* the loop "for i in range(len(ind))"; names is the list short_name
RECURSIVE UniqueLoop(_, _, _, _, _)
UniqueLoop(result, I, i, names, unique_ind) ==
    IF i >= Len(I) THEN unique_ind
    ELSE LET short == result[I[i + 1] + 1].short_name
         IN IF \A k \in 1..Len(names) : names[k] # short
            THEN UniqueLoop(result, I, i + 1, Append(names, short),
                            Append(unique_ind, I[i + 1]))
            ELSE UniqueLoop(result, I, i + 1, names, unique_ind)

\* a faulty variant of getunique: the loop starts at range(1, len(ind))
getuniqueFromOne(result, I) == UniqueLoop(result, I, 1, <<>>, <<>>)

getunique(result, I) == UniqueLoop(result, I, 0, <<>>, <<>>)

----------------------------------------------------------------------------
(* Image records of UseCase_II and the loops that select one of them *)

\* the enrValue 2.35e-07 the GALEX test compares with, in units of 1e-9
NuvEnrValue == 235
\* an enrValue of a GALEX record that is not the near-UV one (1.55e-07)
FuvEnrValue == 155
\* galaxies[0:3]
SubsetSize == 3

ImageRecord(t, b, f, e) ==
    [title |-> t, bandpass_id |-> b, format |-> f, enrValue |-> e]

\* Python's None as the value of a record variable
NoneImage == ImageRecord("<None>", "<None>", "<None>", 0)

\* the records the three image services answer with
GalexRecords ==
    {ImageRecord("GALEX AIS NUV", "NUV", "image/fits", NuvEnrValue),
     ImageRecord("GALEX AIS FUV", "FUV", "image/fits", FuvEnrValue),
     ImageRecord("GALEX AIS NUV preview", "NUV", "image/jpeg", NuvEnrValue)}
SdssRecords ==
    {ImageRecord("Sloan Digital Sky Survey - Filter r", "r", "image/fits", 0),
     ImageRecord("Sloan Digital Sky Survey - Filter g", "g", "image/fits", 0)}
AllwiseRecords ==
    {ImageRecord("AllWISE W1 Coadd", "W1", "image/fits", 0),
     ImageRecord("AllWISE W2 Coadd", "W2", "image/fits", 0)}

\* the answers of a search: at most MaxImages records of the service, none
\* twice, in any order
SearchResults(records) ==
    {t \in UNION {[1..k -> records] : k \in 0..MaxImages} :
        \A j, k \in 1..Len(t) : j # k => t[j] # t[k]}

\* the tests of the selection loops
IsW1(rec) == Contains("W1", rec.bandpass_id)
IsNuvFits(rec) ==
    Contains("image/fits", rec.format) /\ rec.enrValue = NuvEnrValue
IsRband(rec) == Contains("Sloan Digital Sky Survey - Filter r", rec.title)

Suitable(survey, rec) ==
    CASE survey = "allwise" -> IsW1(rec)
      [] survey = "galex" -> IsNuvFits(rec)
      [] survey = "sdss" -> IsRband(rec)

\* for rec in table: if test(rec): break -- the position (from 1) of the record
\* the loop variable holds when the loop is left, 0 when the body never ran
RECURSIVE ForBreak(_, _, _)
ForBreak(survey, table, k) ==
    IF k > Len(table)
    THEN k - 1
    ELSE IF Suitable(survey, table[k])
         THEN k
         ELSE ForBreak(survey, table, k + 1)

\* x = None; for record in table: if test(record): x = record; break
RECURSIVE ForAssignBreak(_, _, _)
ForAssignBreak(survey, table, k) ==
    IF k > Len(table)
    THEN NoneImage
    ELSE IF Suitable(survey, table[k])
         THEN table[k]
         ELSE ForAssignBreak(survey, table, k + 1)

\* Cutout2D(image[0].data, pos, size, wcs=...): the galaxy whose position it
\* is cut at and the record whose image it is cut from
Cutout(g, rec) == [pos |-> g, image |-> rec]

\* fig.add_subplot(1, 3, p, projection=c.wcs); ax.set_title(t); ax.imshow(d.data)
Subplot(p, c, t, d) ==
    [position |-> p, projection |-> c, title |-> t, shown |-> d]

\* no cutout: the value of a cutout variable not assigned yet, and what a
\* subplot without imshow shows
NoCutout == Cutout(-1, NoneImage)

----------------------------------------------------------------------------
(* Initial values of the globals no cell has assigned yet *)

NoRecord ==
    [res_description |-> "", short_name |-> "", source_value |-> "",
     access_url |-> ""]

BibUnset ==
    /\ bibcode = "" /\ match = <<>> /\ url = <<>> /\ idx = 0 /\ myidx = 0
    /\ myTAP = NoRecord /\ ind_int = 0
    /\ author = "" /\ all_authors = <<>> /\ all_accessurl = <<>>

\* results before a query has run
NoResults == [service |-> -1, query |-> ""]

TableUnset ==
    tables = <<>> /\ short_name = "" /\ tablename = "" /\ query = ""
    /\ printed = <<>>
    /\ tables_service = -1 /\ results = NoResults

ImageUnset ==
    /\ allwise_image_table = <<>> /\ galex_image_table = <<>>
    /\ sdss_image_table = <<>>
    /\ allwise_image_record = NoneImage /\ galex_image_record = NoneImage
    /\ sdss_rband_record = NoneImage
    /\ loop_i = 0 /\ file_name = NoneImage
    /\ galaxy_subset = 0 /\ galaxy = 0 /\ iter = 0 /\ pc = "idle"
    /\ galex_cutout = NoCutout /\ sdss_cutout = NoCutout
    /\ allwise_cutout = NoCutout
    /\ fig = <<>>

----------------------------------------------------------------------------
(* Cells of the keyword search *)

\* ind = getrow(tap_services, keywords="...")
CellGetrow ==
    /\ IF getrowRaises(tap_services, keywords)
       THEN /\ err' = "TypeError"
            /\ UNCHANGED <<ind, bound>>
       ELSE /\ ind' = getrow(tap_services, keywords)
            /\ bound' = (bound \ {"ind_int"}) \cup {"ind"}
            /\ err' = "none"
    /\ last' = "getrow"
    /\ printed' = <<>>
    /\ UNCHANGED <<tap_services, keywords, uniq_ind, bibVars>>
    /\ UNCHANGED <<tables, short_name, tablename, query>>
    /\ UNCHANGED imageVars
    /\ UNCHANGED authorVars
    /\ UNCHANGED queryVars

\* a faulty variant of CellGetunique: getunique removes the duplicates from
\* the list it is given, so the global ind is changed too
CellGetuniqueInPlace ==
    /\ last' = "getunique"
    /\ printed' = <<>>
    /\ IF "ind" \in bound
       THEN /\ uniq_ind' = getunique(tap_services, ind)
            /\ ind' = uniq_ind'
            /\ bound' = bound \cup {"uniq_ind"}
            /\ err' = "none"
       ELSE /\ err' = IF "ind_int" \in bound THEN "TypeError" ELSE "NameError"
            /\ UNCHANGED <<uniq_ind, ind, bound>>
    /\ UNCHANGED <<tap_services, keywords, bibVars>>
    /\ UNCHANGED <<tables, short_name, tablename, query>>
    /\ UNCHANGED imageVars
    /\ UNCHANGED authorVars
    /\ UNCHANGED queryVars

\* uniq_ind = getunique(tap_services, ind)
CellGetunique ==
    /\ last' = "getunique"
    /\ printed' = <<>>
    /\ IF "ind" \in bound
       THEN /\ uniq_ind' = getunique(tap_services, ind)
            /\ bound' = bound \cup {"uniq_ind"}
            /\ err' = "none"
       ELSE /\ err' = IF "ind_int" \in bound THEN "TypeError" ELSE "NameError"
            /\ UNCHANGED <<uniq_ind, bound>>
    /\ UNCHANGED <<tap_services, keywords, ind, bibVars>>
    /\ UNCHANGED <<tables, short_name, tablename, query>>
    /\ UNCHANGED imageVars
    /\ UNCHANGED authorVars
    /\ UNCHANGED queryVars

InitGetrow ==
    /\ tap_services \in Collections(Descriptions, {"I/90"}, {""}, MaxRecords)
    /\ keywords \in KeywordStrings
    /\ ind = <<>>
    /\ uniq_ind = <<>>
    /\ BibUnset /\ TableUnset /\ resources = <<>> /\ ImageUnset
    /\ bound = {}
    /\ last = "start"
    /\ err = "none"

NextGetrow == CellGetrow

\* as InitGetrow, with records that have no description
InitGetrowMissing ==
    /\ tap_services \in
           Collections(Descriptions \cup {None}, {"I/90"}, {""}, MaxRecords)
    /\ keywords \in KeywordStrings
    /\ ind = <<>>
    /\ uniq_ind = <<>>
    /\ BibUnset /\ TableUnset /\ resources = <<>> /\ ImageUnset
    /\ bound = {}
    /\ last = "start"
    /\ err = "none"

SpecGetrowMissing == InitGetrowMissing /\ [][NextGetrow]_vars

SpecGetrow == InitGetrow /\ [][NextGetrow]_vars

\* getunique applied to every index sequence: ind is drawn at the start
InitGetunique ==
    /\ tap_services \in Collections({""}, ShortNames, {""}, MaxDedupRecords)
    /\ ind \in IndexSeqs(tap_services, MaxIndexLen)
    /\ keywords = "" /\ uniq_ind = <<>>
    /\ BibUnset /\ TableUnset /\ resources = <<>> /\ ImageUnset
    /\ bound = {"ind"}
    /\ last = "start"
    /\ err = "none"

NextGetunique == CellGetunique

SpecGetunique == InitGetunique /\ [][NextGetunique]_vars

\* the keyword search followed by the deduplication
PipelineDescriptions == {"", "c", "mc", "cm"}
PipelineKeywords == {"m c", "c", "mc"}

InitPipeline ==
    /\ tap_services \in
           Collections(PipelineDescriptions, {"I/90", "I/9"}, {""}, MaxRecords)
    /\ keywords \in PipelineKeywords
    /\ ind = <<>>
    /\ uniq_ind = <<>>
    /\ BibUnset /\ TableUnset /\ resources = <<>> /\ ImageUnset
    /\ bound = {}
    /\ last = "start"
    /\ err = "none"

NextPipeline == CellGetrow \/ CellGetunique

SpecPipeline == InitPipeline /\ [][NextPipeline]_vars

----------------------------------------------------------------------------
(* Cells of the table-name lookup *)

\* a faulty variant of RestrictedLoop: tablename=name is outside the if
RECURSIVE RestrictedLoopAssignAlways(_, _, _, _)
RestrictedLoopAssignAlways(names, k, short, st) ==
    IF k > Len(names) THEN st
    ELSE RestrictedLoopAssignAlways(names, k + 1, short,
             [out |-> IF StartsWith(names[k], short)
                      THEN Append(st.out, names[k]) ELSE st.out,
              tablename |-> names[k], assigned |-> TRUE])

\* a faulty variant of SubstringLoop: the loop ends at the first name printed
RECURSIVE SubstringLoopFirstOnly(_, _, _, _)
SubstringLoopFirstOnly(names, k, short, out) ==
    IF k > Len(names) THEN out
    ELSE IF Contains(short, names[k])
         THEN Append(out, names[k])
         ELSE SubstringLoopFirstOnly(names, k + 1, short, out)

\* the loop "for name in tables.keys(): if short_name in name: print(name)"
RECURSIVE SubstringLoop(_, _, _, _)
SubstringLoop(names, k, short, out) ==
    IF k > Len(names) THEN out
    ELSE SubstringLoop(names, k + 1, short,
             IF Contains(short, names[k]) THEN Append(out, names[k]) ELSE out)

\* the loop "for name in tables.keys(): if name.startswith(short_name): ..."
\* st.out is what was printed, st.tablename the global tablename and
\* st.assigned whether the loop has assigned it
RECURSIVE RestrictedLoop(_, _, _, _)
RestrictedLoop(names, k, short, st) ==
    IF k > Len(names) THEN st
    ELSE RestrictedLoop(names, k + 1, short,
             IF StartsWith(names[k], short)
             THEN [out |-> Append(st.out, names[k]),
                   tablename |-> names[k], assigned |-> TRUE]
             ELSE st)

\* 'SELECT * FROM "%s"' %tablename
FormatQuery(t) == "SELECT * FROM \"" \o t \o "\""

\* tables = tap_services[uniq_ind[0]].service.tables; short_name = "..."; the
\* listing is the service's answer, s the short name written in the cell
CellFindTable(listing, s) ==
    /\ last' = "findtable"
    /\ IF "uniq_ind" \notin bound \/ uniq_ind = <<>>
       THEN /\ err' = IF "uniq_ind" \notin bound THEN "NameError" ELSE "IndexError"
            /\ printed' = <<>>
            /\ UNCHANGED <<tables, tables_service, short_name, bound>>
       ELSE /\ tables' = listing
            /\ tables_service' = uniq_ind[1]
            /\ short_name' = s
            /\ printed' = SubstringLoop(listing, 1, s, <<>>)
            /\ bound' = bound \cup {"tables", "short_name"}
            /\ err' = "none"
    /\ UNCHANGED <<tap_services, filterVars, bibVars, tablename, query, results>>
    /\ UNCHANGED imageVars
    /\ UNCHANGED authorVars

\* find (more restricted) table name
CellFindRestricted ==
    /\ last' = "restricted"
    /\ IF {"tables", "short_name"} \subseteq bound
       THEN LET st == RestrictedLoop(tables, 1, short_name,
                          [out |-> <<>>, tablename |-> tablename,
                           assigned |-> FALSE])
            IN /\ printed' = st.out
               /\ tablename' = st.tablename
               /\ bound' = IF st.assigned THEN bound \cup {"tablename"} ELSE bound
               /\ err' = "none"
       ELSE /\ err' = "NameError"
            /\ printed' = <<>>
            /\ UNCHANGED <<tablename, bound>>
    /\ UNCHANGED <<tap_services, filterVars, bibVars, tables, short_name, query>>
    /\ UNCHANGED imageVars
    /\ UNCHANGED authorVars
    /\ UNCHANGED queryVars

\* query = 'SELECT * FROM "%s"' %tablename; results = ....search(query)
CellQuery ==
    /\ last' = "query"
    /\ printed' = <<>>
    /\ IF "tablename" \in bound
       THEN /\ query' = FormatQuery(tablename)
            /\ IF "uniq_ind" \notin bound \/ uniq_ind = <<>>
               THEN /\ err' = IF "uniq_ind" \notin bound THEN "NameError"
                               ELSE "IndexError"
                    /\ bound' = bound \cup {"query"}
                    /\ UNCHANGED results
               ELSE /\ results' = [service |-> uniq_ind[1], query |-> query']
                    /\ bound' = bound \cup {"query", "results"}
                    /\ err' = "none"
       ELSE /\ err' = "NameError"
            /\ UNCHANGED <<query, results, bound>>
    /\ UNCHANGED <<tap_services, filterVars, bibVars, tables, short_name, tablename>>
    /\ UNCHANGED tables_service
    /\ UNCHANGED imageVars
    /\ UNCHANGED authorVars

\* the kernel after the keyword search has found one record
InitTable ==
    /\ tap_services \in Collections({"mc"}, {"I/90"}, {""}, 1) \ {<<>>}
    /\ keywords = "m c"
    /\ ind = <<0>>
    /\ uniq_ind = <<0>>
    /\ BibUnset /\ TableUnset /\ resources = <<>> /\ ImageUnset
    /\ bound = {"ind", "uniq_ind"}
    /\ last = "start"
    /\ err = "none"

NextTable ==
    \/ \E listing \in Listings(MaxTables) : \E s \in ShortNames :
           CellFindTable(listing, s)
    \/ CellFindRestricted
    \/ CellQuery

SpecTable == InitTable /\ [][NextTable]_vars

----------------------------------------------------------------------------
(* Cells of the bibcode lookup *)

\* np.where(all_bibcodes == bibcode): the indices of the equal entries
RECURSIVE WhereEqual(_, _, _, _)
WhereEqual(result, b, i, acc) ==
    IF i >= Len(result) THEN acc
    ELSE WhereEqual(result, b, i + 1,
             IF result[i + 1].source_value = b THEN Append(acc, i) ELSE acc)

\* the loop "for s in tap_services.to_table()" from row k on; st.idx is the
\* counter idx, st.myidx the global myidx, st.assigned whether it was assigned
RECURSIVE BibLoop(_, _, _, _)
BibLoop(result, b, k, st) ==
    IF k >= Len(result) THEN st
    ELSE IF Contains(b, result[k + 1].source_value)
         THEN [idx |-> k, myidx |-> k, assigned |-> TRUE]
         ELSE BibLoop(result, b, k + 1, [st EXCEPT !.idx = k])

\* bibcode = '...'; match = np.where(all_bibcodes == bibcode); url = ...
CellBibWhere(b) ==
    /\ last' = "bibwhere"
    /\ bibcode' = b
    /\ match' = WhereEqual(tap_services, b, 0, <<>>)
    /\ url' = [k \in 1..Len(match') |-> tap_services[match'[k] + 1].access_url]
    /\ bound' = bound \cup {"bibcode", "match", "url"}
    /\ err' = "none"
    /\ printed' = <<>>
    /\ UNCHANGED <<tap_services, filterVars, idx, myidx, myTAP, ind_int>>
    /\ UNCHANGED <<tables, short_name, tablename, query>>
    /\ UNCHANGED imageVars
    /\ UNCHANGED authorVars
    /\ UNCHANGED queryVars

\* bibcode = '...'; the row loop; myTAP=tap_services[myidx]
CellBibLoop(b) ==
    LET st == BibLoop(tap_services, b, 0,
                      [idx |-> -1, myidx |-> myidx, assigned |-> FALSE])
        has == st.assigned \/ "myidx" \in bound
    IN /\ last' = "bibloop"
       /\ bibcode' = b
       /\ idx' = st.idx
       /\ myidx' = st.myidx
       /\ myTAP' = IF has THEN tap_services[st.myidx + 1] ELSE myTAP
       /\ bound' = bound \cup {"bibcode", "idx"}
                     \cup (IF st.assigned THEN {"myidx"} ELSE {})
                     \cup (IF has THEN {"myTAP"} ELSE {})
       /\ err' = IF has THEN "none" ELSE "NameError"
       /\ printed' = <<>>
       /\ UNCHANGED <<tap_services, filterVars, match, url, ind_int>>
       /\ UNCHANGED <<tables, short_name, tablename, query>>
       /\ UNCHANGED imageVars
       /\ UNCHANGED authorVars
       /\ UNCHANGED queryVars

\* bibcode = '...'; match = np.where(...); short_name = all_shortnames[match][0];
\* ind = int(match[0]); tap_services[ind].describe()
CellRaboud(b) ==
    LET m == WhereEqual(tap_services, b, 0, <<>>)
    IN /\ last' = "raboud"
       /\ bibcode' = b
       /\ match' = m
       /\ printed' = <<>>
       /\ IF m = <<>>
          THEN /\ err' = "IndexError"
               /\ bound' = bound \cup {"bibcode", "match"}
               /\ UNCHANGED <<short_name, ind, ind_int>>
          ELSE /\ short_name' = tap_services[m[1] + 1].short_name
               /\ IF Len(m) = 1
                  THEN /\ ind_int' = m[1]
                       /\ ind' = <<>>
                       /\ bound' = (bound \ {"ind"}) \cup
                              {"bibcode", "match", "short_name", "ind_int"}
                       /\ err' = "none"
                  ELSE /\ err' = "TypeError"
                       /\ bound' = bound \cup {"bibcode", "match", "short_name"}
                       /\ UNCHANGED <<ind, ind_int>>
       /\ UNCHANGED <<tap_services, keywords, uniq_ind, url, idx, myidx, myTAP>>
       /\ UNCHANGED <<tables, tablename, query>>
       /\ UNCHANGED imageVars
       /\ UNCHANGED authorVars
       /\ UNCHANGED queryVars

InitBib ==
    /\ tap_services \in
           Collections({""}, {"I/90", "J/A+A/329/101"}, SourceValues, MaxRecords)
    /\ keywords = ""
    /\ ind = <<>>
    /\ uniq_ind = <<>>
    /\ BibUnset /\ TableUnset /\ resources = <<>> /\ ImageUnset
    /\ bound = {}
    /\ last = "start"
    /\ err = "none"

NextBib ==
    \E b \in Bibcodes : CellBibWhere(b) \/ CellBibLoop(b) \/ CellRaboud(b)

SpecBib == InitBib /\ [][NextBib]_vars

----------------------------------------------------------------------------
(* The author lookup *)

CreatorNames == {"Eichhorn H.", "Raboud D."}

\* the creators of a record: at most n names
CreatorSeqs(n) == UNION {[1..k -> CreatorNames] : k \in 0..n}

\* the access URLs of the registry records of any service type
ResourceUrls ==
    Urls \cup {"http://vizier.u-strasbg.fr/viz-bin/conesearch/I/90/catalog?"}

\* resources = registry.search(keywords=[...], includeaux=True)
Resources(n) ==
    UNION {[1..k -> [creators : CreatorSeqs(MaxCreators),
                     access_url : ResourceUrls]] : k \in 0..n}

\* the loop "for record in resources" from record k on; st.url is the array
\* url, st.raised whether names[0] has raised IndexError
RECURSIVE AuthorLoop(_, _, _)
AuthorLoop(records, k, st) ==
    IF k > Len(records) THEN st
    ELSE LET names == records[k].creators
         IN IF names = <<>>
            THEN [st EXCEPT !.raised = TRUE]
            ELSE AuthorLoop(records, k + 1,
                     IF Contains("Eichhorn", names[1])
                     THEN [st EXCEPT !.url = Append(@, records[k].access_url)]
                     ELSE st)

\* author = 'Eichhorn'; all_authors = ...; all_accessurl = ...; url=np.array([]);
\* the loop; print(url).  authors is the creator_seq column of tap_services
CellAuthor(authors) ==
    LET st == AuthorLoop(resources, 1, [url |-> <<>>, raised |-> FALSE])
    IN /\ last' = "author"
       /\ author' = "Eichhorn"
       /\ all_authors' = authors
       /\ all_accessurl' =
              [k \in 1..Len(tap_services) |-> tap_services[k].access_url]
       /\ url' = st.url
       /\ err' = IF st.raised THEN "IndexError" ELSE "none"
       /\ bound' = bound \cup {"author", "all_authors", "all_accessurl", "url"}
       /\ printed' = <<>>
       /\ UNCHANGED <<tap_services, filterVars, bibcode, match, idx, myidx,
                      myTAP, ind_int, resources>>
       /\ UNCHANGED <<tables, short_name, tablename, query>>
       /\ UNCHANGED queryVars
       /\ UNCHANGED imageVars

InitAuthor ==
    /\ tap_services \in Collections({""}, {"I/90"}, {""}, MaxRecords)
    /\ resources \in Resources(MaxRecords)
    /\ keywords = ""
    /\ ind = <<>>
    /\ uniq_ind = <<>>
    /\ BibUnset /\ TableUnset /\ ImageUnset
    /\ bound = {}
    /\ last = "start"
    /\ err = "none"

NextAuthor ==
    \E authors \in [1..Len(tap_services) -> CreatorSeqs(MaxCreators)] :
        CellAuthor(authors)

SpecAuthor == InitAuthor /\ [][NextAuthor]_vars

----------------------------------------------------------------------------
(* Cells of the second catalogue (Raboud) *)

\* the loop "for name in tables.keys(): if short_name in name: tablename = name"
\* st.tablename is the global tablename, st.assigned whether the loop has
\* assigned it
RECURSIVE RaboudLoop(_, _, _, _)
RaboudLoop(names, k, short, st) ==
    IF k > Len(names) THEN st
    ELSE RaboudLoop(names, k + 1, short,
             IF Contains(short, names[k])
             THEN [tablename |-> names[k], assigned |-> TRUE]
             ELSE st)

\* tables = tap_services[ind].service.tables; the loop; query = ...;
\* results = tap_services[uniq_ind[0]].search(query)
CellRaboudTable(listing) ==
    /\ last' = "raboudtable"
    /\ printed' = <<>>
    /\ IF "ind_int" \notin bound
       THEN /\ err' = IF "ind" \in bound THEN "TypeError" ELSE "NameError"
            /\ UNCHANGED <<tables, tables_service, tablename, query, results,
                           bound>>
       ELSE LET st == RaboudLoop(listing, 1, short_name,
                          [tablename |-> tablename, assigned |-> FALSE])
                has == st.assigned \/ "tablename" \in bound
                ran == has /\ "uniq_ind" \in bound /\ uniq_ind # <<>>
            IN /\ tables' = listing
               /\ tables_service' = ind_int
               /\ tablename' = st.tablename
               /\ query' = IF has THEN FormatQuery(st.tablename) ELSE query
               /\ results' = IF ran
                             THEN [service |-> uniq_ind[1], query |-> query']
                             ELSE results
               /\ bound' = bound \cup {"tables"}
                             \cup (IF st.assigned THEN {"tablename"} ELSE {})
                             \cup (IF has THEN {"query"} ELSE {})
                             \cup (IF ran THEN {"results"} ELSE {})
               /\ err' = IF ~has \/ "uniq_ind" \notin bound THEN "NameError"
                         ELSE IF uniq_ind = <<>> THEN "IndexError"
                         ELSE "none"
    /\ UNCHANGED <<tap_services, filterVars, bibVars, short_name>>
    /\ UNCHANGED imageVars
    /\ UNCHANGED authorVars

\* the descriptions of the collection of the Raboud step: one that holds the
\* keywords of the search and one that does not
RaboudDescriptions == {"mc", ""}

\* the kernel after the keyword search cells have run on the collection
InitRaboud ==
    /\ tap_services \in
           Collections(RaboudDescriptions, {"I/90", "J/A+A/329/101"},
                       {"1970MmRAS..73..125E", "1998A&A...329..101R"},
                       MaxRecords)
    /\ keywords = "m c"
    /\ ind = getrow(tap_services, keywords)
    /\ uniq_ind = getunique(tap_services, ind)
    /\ BibUnset /\ TableUnset /\ resources = <<>> /\ ImageUnset
    /\ bound = {"ind", "uniq_ind"}
    /\ last = "start"
    /\ err = "none"

NextRaboud ==
    \/ \E b \in Bibcodes : CellRaboud(b)
    \/ \E listing \in Listings(MaxTables) : CellRaboudTable(listing)

SpecRaboud == InitRaboud /\ [][NextRaboud]_vars

----------------------------------------------------------------------------
(* Frames of the UseCase_II cells *)

unchangedDiscovery ==
    UNCHANGED <<tap_services, filterVars, bibVars, tableVars, queryVars,
                authorVars>>
unchangedLoop ==
    UNCHANGED <<galaxy_subset, galaxy, iter, pc, galex_cutout, sdss_cutout,
                allwise_cutout, fig>>

----------------------------------------------------------------------------
(* Cells of the single-galaxy steps of UseCase_II *)

\* allwise_image_table = allwise_image_service.search(pos=pos, size=0)
CellSearchAllwise(t) ==
    /\ last' = "search_allwise"
    /\ allwise_image_table' = t
    /\ bound' = bound \cup {"allwise_image_table"}
    /\ err' = "none"
    /\ UNCHANGED <<galex_image_table, sdss_image_table, allwise_image_record,
                   galex_image_record, sdss_rband_record, loop_i, file_name>>
    /\ unchangedLoop /\ unchangedDiscovery

\* galex_image_table = galex_image_service.search(pos=pos, size=0.0, ...)
CellSearchGalex(t) ==
    /\ last' = "search_galex"
    /\ galex_image_table' = t
    /\ bound' = bound \cup {"galex_image_table"}
    /\ err' = "none"
    /\ UNCHANGED <<allwise_image_table, sdss_image_table, allwise_image_record,
                   galex_image_record, sdss_rband_record, loop_i, file_name>>
    /\ unchangedLoop /\ unchangedDiscovery

\* sdss_image_table = sdss_image_service.search(pos=pos, size=0.0, format='', ...)
CellSearchSdss(t) ==
    /\ last' = "search_sdss"
    /\ sdss_image_table' = t
    /\ bound' = bound \cup {"sdss_image_table"}
    /\ err' = "none"
    /\ UNCHANGED <<allwise_image_table, galex_image_table, allwise_image_record,
                   galex_image_record, sdss_rband_record, loop_i, file_name>>
    /\ unchangedLoop /\ unchangedDiscovery

\* for allwise_image_record in allwise_image_table: if 'W1' in ...: break
\* print(allwise_image_record.title, allwise_image_record.bandpass_id)
CellSelectW1 ==
    LET k == ForBreak("allwise", allwise_image_table, 1)
    IN /\ last' = "select_w1"
       /\ IF "allwise_image_table" \notin bound
          THEN /\ err' = "NameError"
               /\ UNCHANGED <<allwise_image_record, bound>>
          ELSE IF k = 0
               THEN /\ err' = IF "allwise_image_record" \notin bound
                              THEN "NameError"
                              ELSE IF allwise_image_record = NoneImage
                                   THEN "AttributeError"
                                   ELSE "none"
                    /\ UNCHANGED <<allwise_image_record, bound>>
               ELSE /\ allwise_image_record' = allwise_image_table[k]
                    /\ bound' = bound \cup {"allwise_image_record"}
                    /\ err' = "none"
       /\ UNCHANGED <<allwise_image_table, galex_image_table, sdss_image_table,
                      galex_image_record, sdss_rband_record, loop_i, file_name>>
       /\ unchangedLoop /\ unchangedDiscovery

\* for i in range(len(galex_image_table)): if (...): break
\* galex_image_record = galex_image_table[i]; print(...)
CellSelectGalex ==
    LET k == ForBreak("galex", galex_image_table, 1)
    IN /\ last' = "select_galex"
       /\ IF "galex_image_table" \notin bound
          THEN /\ err' = "NameError"
               /\ UNCHANGED <<galex_image_record, loop_i, bound>>
          ELSE IF k = 0
               THEN /\ err' = IF "i" \notin bound THEN "NameError"
                              ELSE "IndexError"
                    /\ UNCHANGED <<galex_image_record, loop_i, bound>>
               ELSE /\ loop_i' = k - 1
                    /\ galex_image_record' = galex_image_table[loop_i' + 1]
                    /\ bound' = bound \cup {"i", "galex_image_record"}
                    /\ err' = "none"
       /\ UNCHANGED <<allwise_image_table, galex_image_table, sdss_image_table,
                      allwise_image_record, sdss_rband_record, file_name>>
       /\ unchangedLoop /\ unchangedDiscovery

\* for sdss_rband_record in sdss_image_table: if '... Filter r' in ...: break
\* print(sdss_rband_record.title, sdss_rband_record.bandpass_id)
CellSelectSdss ==
    LET k == ForBreak("sdss", sdss_image_table, 1)
    IN /\ last' = "select_sdss"
       /\ IF "sdss_image_table" \notin bound
          THEN /\ err' = "NameError"
               /\ UNCHANGED <<sdss_rband_record, bound>>
          ELSE IF k = 0
               THEN /\ err' = IF "sdss_rband_record" \notin bound
                              THEN "NameError"
                              ELSE IF sdss_rband_record = NoneImage
                                   THEN "AttributeError"
                                   ELSE "none"
                    /\ UNCHANGED <<sdss_rband_record, bound>>
               ELSE /\ sdss_rband_record' = sdss_image_table[k]
                    /\ bound' = bound \cup {"sdss_rband_record"}
                    /\ err' = "none"
       /\ UNCHANGED <<allwise_image_table, galex_image_table, sdss_image_table,
                      allwise_image_record, galex_image_record, loop_i, file_name>>
       /\ unchangedLoop /\ unchangedDiscovery

\* file_name = download_file(rec.getdataurl(), cache=True) for the global rec
\* called name; file_name stands for the record whose data URL is fetched
Download(name, rec, cell) ==
    /\ last' = cell
    /\ IF name \notin bound
       THEN /\ err' = "NameError"
            /\ UNCHANGED <<file_name, bound>>
       ELSE IF rec = NoneImage
            THEN /\ err' = "AttributeError"
                 /\ UNCHANGED <<file_name, bound>>
            ELSE /\ file_name' = rec
                 /\ bound' = bound \cup {"file_name"}
                 /\ err' = "none"
    /\ UNCHANGED <<allwise_image_table, galex_image_table, sdss_image_table,
                   allwise_image_record, galex_image_record, sdss_rband_record, loop_i>>
    /\ unchangedLoop /\ unchangedDiscovery

CellDownloadAllwise ==
    Download("allwise_image_record", allwise_image_record, "download_allwise")

CellDownloadGalex ==
    Download("galex_image_record", galex_image_record, "download_galex")

CellDownloadSdss ==
    Download("sdss_rband_record", sdss_rband_record, "download_sdss")

DiscoveryUnset ==
    /\ tap_services = <<>>
    /\ keywords = ""
    /\ ind = <<>>
    /\ uniq_ind = <<>>
    /\ BibUnset /\ TableUnset /\ resources = <<>>

InitSelect ==
    /\ DiscoveryUnset /\ ImageUnset
    /\ bound = {}
    /\ last = "start"
    /\ err = "none"

NextSelect ==
    \/ \E t \in SearchResults(AllwiseRecords) : CellSearchAllwise(t)
    \/ \E t \in SearchResults(GalexRecords) : CellSearchGalex(t)
    \/ \E t \in SearchResults(SdssRecords) : CellSearchSdss(t)
    \/ CellSelectW1
    \/ CellSelectGalex
    \/ CellSelectSdss
    \/ CellDownloadAllwise
    \/ CellDownloadGalex
    \/ CellDownloadSdss

SpecSelect == InitSelect /\ [][NextSelect]_vars

----------------------------------------------------------------------------
(* The galaxy loop of UseCase_II, one step per search *)

NotFoundTitle(survey) ==
    CASE survey = "galex" -> "GALEX image not found"
      [] survey = "sdss" -> "SDSS rband image not found"
      [] survey = "allwise" -> "AllWISE W1 image not found"

\* galaxy_subset = galaxies[0:3], n the number of rows of galaxies
CellLoopStart(n) ==
    /\ pc = "idle"
    /\ last' = "loop_start"
    /\ galaxy_subset' = IF n < SubsetSize THEN n ELSE SubsetSize
    /\ iter' = 0
    /\ pc' = "for"
    /\ bound' = bound \cup {"galaxy_subset"}
    /\ err' = "none"
    /\ UNCHANGED <<allwise_image_table, galex_image_table, sdss_image_table,
                   allwise_image_record, galex_image_record, sdss_rband_record,
                   loop_i, file_name, galaxy, galex_cutout, sdss_cutout,
                   allwise_cutout, fig>>
    /\ unchangedDiscovery

\* for galaxy in galaxy_subset: pos = SkyCoord(ra, dec, ...); fig = plt.figure(...)
LoopFor ==
    /\ pc = "for"
    /\ last' = "loop_for"
    /\ IF iter < galaxy_subset
       THEN /\ galaxy' = iter
            /\ iter' = iter + 1
            /\ fig' = <<>>
            /\ pc' = "galex"
            /\ bound' = bound \cup {"galaxy", "fig"}
       ELSE /\ pc' = "idle"
            /\ iter' = 0
            /\ UNCHANGED <<galaxy, fig, bound>>
    /\ err' = "none"
    /\ UNCHANGED <<allwise_image_table, galex_image_table, sdss_image_table,
                   allwise_image_record, galex_image_record, sdss_rband_record,
                   loop_i, file_name, galaxy_subset, galex_cutout, sdss_cutout,
                   allwise_cutout>>
    /\ unchangedDiscovery

\* the else branch of a survey: fig.add_subplot(1, 3, p,
\* projection=galex_cutout.wcs); ax.set_title('... not found')
NotFoundBranch(survey, p, next) ==
    IF "galex_cutout" \in bound
    THEN /\ fig' = Append(fig, Subplot(p, galex_cutout, NotFoundTitle(survey),
                                       NoCutout))
         /\ pc' = next
         /\ err' = "none"
         /\ UNCHANGED iter
    ELSE /\ err' = "NameError"
         /\ pc' = "idle"
         /\ iter' = 0
         /\ UNCHANGED fig

\* the GALEX part of an iteration
LoopGalex(t) ==
    LET rec == ForAssignBreak("galex", t, 1)
    IN /\ pc = "galex"
       /\ last' = "loop_galex"
       /\ galex_image_table' = t
       /\ galex_image_record' = rec
       /\ IF rec # NoneImage
          THEN /\ file_name' = rec
               /\ galex_cutout' = Cutout(galaxy, rec)
               /\ fig' = Append(fig, Subplot(1, galex_cutout', rec.title,
                                             galex_cutout'))
               /\ bound' = bound \cup {"galex_image_table", "galex_image_record",
                                       "file_name", "galex_cutout"}
               /\ pc' = "sdss"
               /\ err' = "none"
               /\ UNCHANGED iter
          ELSE /\ NotFoundBranch("galex", 1, "sdss")
               /\ bound' = bound \cup {"galex_image_table", "galex_image_record"}
               /\ UNCHANGED <<file_name, galex_cutout>>
       /\ UNCHANGED <<allwise_image_table, sdss_image_table,
                      allwise_image_record, sdss_rband_record, loop_i,
                      galaxy_subset, galaxy, sdss_cutout, allwise_cutout>>
       /\ unchangedDiscovery

\* the SDSS part of an iteration
LoopSdss(t) ==
    LET rec == ForAssignBreak("sdss", t, 1)
    IN /\ pc = "sdss"
       /\ last' = "loop_sdss"
       /\ sdss_image_table' = t
       /\ sdss_rband_record' = rec
       /\ IF rec # NoneImage
          THEN /\ file_name' = rec
               /\ sdss_cutout' = Cutout(galaxy, rec)
               /\ fig' = Append(fig, Subplot(2, sdss_cutout', rec.title,
                                             sdss_cutout'))
               /\ bound' = bound \cup {"sdss_image_table", "sdss_rband_record",
                                       "file_name", "sdss_cutout"}
               /\ pc' = "allwise"
               /\ err' = "none"
               /\ UNCHANGED iter
          ELSE /\ NotFoundBranch("sdss", 2, "allwise")
               /\ bound' = bound \cup {"sdss_image_table", "sdss_rband_record"}
               /\ UNCHANGED <<file_name, sdss_cutout>>
       /\ UNCHANGED <<allwise_image_table, galex_image_table,
                      allwise_image_record, galex_image_record, loop_i,
                      galaxy_subset, galaxy, galex_cutout, allwise_cutout>>
       /\ unchangedDiscovery

\* the AllWISE part of an iteration
LoopAllwise(t) ==
    LET rec == ForAssignBreak("allwise", t, 1)
    IN /\ pc = "allwise"
       /\ last' = "loop_allwise"
       /\ allwise_image_table' = t
       /\ allwise_image_record' = rec
       /\ IF rec # NoneImage
          THEN /\ file_name' = rec
               /\ allwise_cutout' = Cutout(galaxy, rec)
               /\ fig' = Append(fig, Subplot(3, allwise_cutout', rec.title,
                                             allwise_cutout'))
               /\ bound' = bound \cup {"allwise_image_table",
                                       "allwise_image_record", "file_name",
                                       "allwise_cutout"}
               /\ pc' = "for"
               /\ err' = "none"
               /\ UNCHANGED iter
          ELSE /\ NotFoundBranch("allwise", 3, "for")
               /\ bound' = bound \cup {"allwise_image_table",
                                       "allwise_image_record"}
               /\ UNCHANGED <<file_name, allwise_cutout>>
       /\ UNCHANGED <<galex_image_table, sdss_image_table,
                      galex_image_record, sdss_rband_record, loop_i,
                      galaxy_subset, galaxy, galex_cutout, sdss_cutout>>
       /\ unchangedDiscovery

InitLoop ==
    /\ DiscoveryUnset /\ ImageUnset
    /\ bound = {}
    /\ last = "start"
    /\ err = "none"

NextLoop ==
    \/ \E n \in 0..MaxGalaxies : CellLoopStart(n)
    \/ LoopFor
    \/ \E t \in SearchResults(GalexRecords) : LoopGalex(t)
    \/ \E t \in SearchResults(SdssRecords) : LoopSdss(t)
    \/ \E t \in SearchResults(AllwiseRecords) : LoopAllwise(t)

SpecLoop == InitLoop /\ [][NextLoop]_vars

----------------------------------------------------------------------------
(* What the claims speak of, stated without the operators of the model *)

CharAt(s, p) == SubSeq(s, p, p)

\* a occurs in b as a contiguous run of characters
IsSubstring(a, b) ==
    \E i \in 1..(Len(b) + 1) : \E j \in (i - 1)..Len(b) : SubSeq(b, i, j) = a

\* the keywords of a keyword string: its maximal blank-free runs
KeywordSet(kw) ==
    {SubSeq(kw, i, j) : <<i, j>> \in
        {x \in (1..Len(kw)) \X (1..Len(kw)) :
            /\ x[1] <= x[2]
            /\ \A p \in x[1]..x[2] : CharAt(kw, p) # " "
            /\ (x[1] = 1 \/ CharAt(kw, x[1] - 1) = " ")
            /\ (x[2] = Len(kw) \/ CharAt(kw, x[2] + 1) = " ")}}

Elems(seq) == {seq[k] : k \in 1..Len(seq)}

MatchesAll(rec, K) == \A key \in K : IsSubstring(key, rec.res_description)

----------------------------------------------------------------------------
(* Claims on getrow, under SpecGetrow *)

\* C1: after getrow with a non-empty keyword set K, an index i is in the
\* result if and only if every keyword of K is a substring of the description
\* of record i.
C1_FilterIffAllKeywords ==
    (last = "getrow" /\ KeywordSet(keywords) # {}) =>
        \A i \in 0..(Len(tap_services) - 1) :
            (i \in Elems(ind)) <=>
                MatchesAll(tap_services[i + 1], KeywordSet(keywords))

\* two keywords, one record that holds both and is returned, one that lacks
\* one of them and is left out
C1_Witness ==
    /\ last = "getrow"
    /\ Cardinality(KeywordSet(keywords)) = 2
    /\ Len(tap_services) = 2
    /\ Len(ind) = 1
    /\ \E i \in 1..2 : \E key \in KeywordSet(keywords) :
           ~IsSubstring(key, tap_services[i].res_description)
              /\ tap_services[i].res_description # ""

\* C2: the index sequence getrow returns is strictly increasing (so in
\* collection order and without repetition) and holds valid indices only.
C2_FilterOrdered ==
    (last = "getrow") =>
        /\ \A k \in 1..Len(ind) : ind[k] \in 0..(Len(tap_services) - 1)
        /\ \A j, k \in 1..Len(ind) : j < k => ind[j] < ind[k]

\* both records of a two-record collection are returned for two keywords
C2_Witness ==
    /\ last = "getrow"
    /\ Cardinality(KeywordSet(keywords)) = 2
    /\ ind = <<0, 1>>

----------------------------------------------------------------------------
(* Claims on getunique, under SpecGetunique *)

ShortOf(i) == tap_services[i + 1].short_name

\* the positions of ind whose short name no earlier position has
FirstPositions ==
    {k \in 1..Len(ind) : \A j \in 1..(k - 1) : ShortOf(ind[j]) # ShortOf(ind[k])}

\* C3: getunique keeps ind[k] exactly when no earlier position of ind has the
\* same short name: the result is ind restricted to the first positions of the
\* short names, in order.
C3_FirstOccurrenceKept ==
    (last = "getunique" /\ err = "none") =>
        /\ Len(uniq_ind) = Cardinality(FirstPositions)
        /\ \A r \in 1..Len(uniq_ind) :
               \E k \in FirstPositions :
                   /\ Cardinality({k2 \in FirstPositions : k2 <= k}) = r
                   /\ uniq_ind[r] = ind[k]

\* a short name at the first and the third position with another one between:
\* the third index is dropped
C3_Witness ==
    /\ last = "getunique"
    /\ Len(ind) = 3
    /\ ShortOf(ind[1]) = ShortOf(ind[3])
    /\ ShortOf(ind[1]) # ShortOf(ind[2])
    /\ ind[1] # ind[3]
    /\ uniq_ind = <<ind[1], ind[2]>>

----------------------------------------------------------------------------
(* Claims on the restricted table-name lookup, under SpecTable *)

\* name is short followed by some rest
HasPrefix(name, short) ==
    \E n \in 0..Len(name) : name = short \o SubSeq(name, n + 1, Len(name))

\* the names of the listing that have the short name as a prefix
PrefixMatches == {name \in Elems(tables) : HasPrefix(name, short_name)}

Resolved == last = "restricted" /\ err = "none"

\* C4: the names the restricted lookup takes as candidates are exactly the
\* names of the listing that have short_name as a prefix; a name that holds
\* short_name at a later position only is no candidate.
C4_CandidateIffPrefix ==
    Resolved => Elems(printed) = PrefixMatches

\* a listing with a candidate and with a name that holds the short name
\* after another leading part
C4_Witness ==
    /\ Resolved
    /\ printed # <<>>
    /\ \E name \in Elems(tables) :
           /\ IsSubstring(short_name, name)
           /\ ~HasPrefix(name, short_name)
           /\ name \notin Elems(printed)

\* C5: with the tables I/90/catalog and I/900/members and the short name
\* I/90, only I/90/catalog matches.
C5_OnlyOwnCatalogue ==
    (Resolved /\ short_name = "I/90"
        /\ Elems(tables) = {"I/90/catalog", "I/900/members"}) =>
            Elems(printed) = {"I/90/catalog"}

\* C8: when no table name has short_name as a prefix, the query that follows
\* the lookup is given no table name.
C8_NoMatchNoQuery ==
    [][(Resolved /\ PrefixMatches = {} /\ last' = "query") =>
           (err' # "none" /\ UNCHANGED query)]_vars

\* C9: when two or more table names have short_name as a prefix, no single
\* one of them is handed on as the table name.
C9_AmbiguousNotChosen ==
    (Resolved /\ Cardinality(PrefixMatches) >= 2) =>
        ~("tablename" \in bound /\ tablename \in PrefixMatches)

\* C10: when exactly one table name has short_name as a prefix, it is the
\* table name handed on, wherever it stands in the listing.
C10_SingleMatchReturned ==
    (Resolved /\ Cardinality(PrefixMatches) = 1) =>
        ("tablename" \in bound /\ PrefixMatches = {tablename})

\* the single match stands in the middle of a listing of three
C10_Witness ==
    /\ Resolved
    /\ Len(tables) = 3
    /\ PrefixMatches = {tables[2]}
    /\ tablename = tables[2]

----------------------------------------------------------------------------
(* Claims on the bibcode lookup, under SpecBib *)

\* the indices of the records whose source_value equals the bibcode
ExactMatches ==
    {i \in 0..(Len(tap_services) - 1) : tap_services[i + 1].source_value = bibcode}

\* the indices of the records whose source_value holds the bibcode
ContainingMatches ==
    {i \in 0..(Len(tap_services) - 1) :
        IsSubstring(bibcode, tap_services[i + 1].source_value)}

Min(S) == CHOOSE x \in S : \A y \in S : x <= y

\* C6: when some record's source_value equals the bibcode, the row-loop
\* lookup hands back the record at the smallest such index, never a record
\* that only contains the bibcode.
C6_FirstExactMatch ==
    (last = "bibloop" /\ ExactMatches # {}) =>
        /\ err = "none"
        /\ myidx = Min(ExactMatches)
        /\ myTAP = tap_services[Min(ExactMatches) + 1]
        /\ myTAP.source_value = bibcode

\* C7: when no record matches the bibcode, the lookup raises no error and
\* hands back no record.
C7_NotFoundIsBenign ==
    /\ (last = "bibloop" /\ ContainingMatches = {}) =>
           (err = "none" /\ "myTAP" \notin bound)
    /\ (last = "raboud" /\ ExactMatches = {}) =>
           (err = "none" /\ "ind_int" \notin bound)

----------------------------------------------------------------------------
(* Further claims on getrow *)

C11_WitnessEmpty ==
    last = "getrow" /\ tap_services = <<>> /\ KeywordSet(keywords) # {}
        /\ ind = <<>>

\* C12 (under SpecGetrowMissing): a record whose description is empty or
\* missing is never returned for a non-empty keyword set, and the other
\* records are filtered as usual.
C12_MissingDescriptionSkipped ==
    (last = "getrow" /\ KeywordSet(keywords) # {}) =>
        /\ err = "none"
        /\ \A i \in 0..(Len(tap_services) - 1) :
               LET d == tap_services[i + 1].res_description
               IN IF d = "" \/ d = None
                  THEN i \notin Elems(ind)
                  ELSE (i \in Elems(ind)) <=>
                           MatchesAll(tap_services[i + 1], KeywordSet(keywords))

----------------------------------------------------------------------------
(* Further claims on getunique, under SpecGetunique *)

Deduplicated == last = "getunique" /\ err = "none"

\* C13: getunique is idempotent: applied to its own result it returns that
\* result again.
C13_DedupIdempotent ==
    Deduplicated => getunique(tap_services, uniq_ind) = uniq_ind

\* a result of two indices left of three
C13_Witness ==
    Deduplicated /\ Len(ind) = 3 /\ Len(uniq_ind) = 2
        /\ uniq_ind[1] # uniq_ind[2]

\* C14: the result of getunique is a subsequence of ind (elements of ind in
\* their order) and is not longer than ind.
C14_DedupSubsequence ==
    Deduplicated =>
        /\ Len(uniq_ind) <= Len(ind)
        /\ \E f \in [1..Len(uniq_ind) -> 1..Len(ind)] :
               /\ \A r, q \in 1..Len(uniq_ind) : r < q => f[r] < f[q]
               /\ \A r \in 1..Len(uniq_ind) : uniq_ind[r] = ind[f[r]]

\* the middle one of three indices is dropped
C14_Witness ==
    /\ Deduplicated
    /\ Len(ind) = 3
    /\ ind[1] # ind[2] /\ ind[2] # ind[3] /\ ind[1] # ind[3]
    /\ uniq_ind = <<ind[1], ind[3]>>

\* C15: no two indices of the result have the same short name, and every
\* short name among the records of ind is the short name of one result index.
C15_OnePerShortName ==
    Deduplicated =>
        /\ \A r, q \in 1..Len(uniq_ind) :
               r # q => ShortOf(uniq_ind[r]) # ShortOf(uniq_ind[q])
        /\ {ShortOf(ind[k]) : k \in 1..Len(ind)} =
               {ShortOf(uniq_ind[r]) : r \in 1..Len(uniq_ind)}

\* three records, two short names, the shared one not at adjacent positions
C15_Witness ==
    /\ Deduplicated
    /\ Len(ind) = 3
    /\ Cardinality({ShortOf(ind[k]) : k \in 1..3}) = 2
    /\ ShortOf(ind[1]) = ShortOf(ind[3])
    /\ Cardinality({uniq_ind[r] : r \in 1..Len(uniq_ind)}) = 2

----------------------------------------------------------------------------
(* Determinism of the lookups *)

\* the row loop of the lookup cell run on the current collection and bibcode
\* in a kernel where myidx is not assigned yet
FreshLookup ==
    BibLoop(tap_services, bibcode, 0,
            [idx |-> -1, myidx |-> 0, assigned |-> FALSE])

\* C16 (under SpecBib): the row-loop lookup gives, for a collection and a
\* bibcode, the same record or the same failure whatever lookups ran before:
\* its outcome is the outcome of the same lookup in a fresh kernel.
C16_LookupDeterministic ==
    (last = "bibloop") =>
        IF FreshLookup.assigned
        THEN err = "none" /\ myTAP = tap_services[FreshLookup.myidx + 1]
        ELSE err = "NameError"

\* the orders in which a service may list the table names of tables
Reorderings ==
    {l \in [1..Len(tables) -> Elems(tables)] : Elems(l) = Elems(tables)}

\* C17 (under SpecTable): the table name the restricted lookup hands on is
\* the same for every order in which the service lists the same table names.
C17_OrderIndependent ==
    Resolved =>
        \A l \in Reorderings :
            RestrictedLoop(l, 1, short_name,
                [out |-> <<>>, tablename |-> tablename,
                 assigned |-> FALSE]).tablename = tablename

----------------------------------------------------------------------------
(* Frame of the discovery cells, under SpecPipeline *)

\* C18: getrow and getunique leave the collection, the keyword string and
\* (getunique) the index sequence they are given unchanged; of the globals
\* only the one that receives the returned index sequence changes.
C18_DiscoveryPure ==
    [][/\ (last' = "getrow") =>
              UNCHANGED <<tap_services, keywords, uniq_ind, bibVars,
                          tables, short_name, tablename, query>>
       /\ (last' = "getunique") =>
              UNCHANGED <<tap_services, keywords, ind, bibVars,
                          tables, short_name, tablename, query>>]_vars

\* getunique has dropped an index and ind still holds it
C18_Witness ==
    /\ last = "getunique" /\ err = "none"
    /\ Len(ind) = 2
    /\ Len(uniq_ind) = 1
    /\ ind = getrow(tap_services, keywords)

----------------------------------------------------------------------------
(* Claims on the galaxy loop of UseCase_II, under SpecLoop *)

\* the loop has added the blank subplot of a survey at grid position p and
\* gone on to the part of the loop named next
BlankAdded(title, p, next) ==
    /\ err = "none"
    /\ pc = next
    /\ fig # <<>>
    /\ fig[Len(fig)].position = p
    /\ fig[Len(fig)].title = title
    /\ fig[Len(fig)].shown = NoCutout

\* C19: for every galaxy and each of the three surveys, when the search has
\* no suitable image the subplot is left blank with its 'not found' title and
\* the loop goes on without an error, also for GALEX of the first galaxy.
C19_NotFoundLeavesBlank ==
    /\ (last = "loop_galex" /\ galex_image_record = NoneImage) =>
           BlankAdded("GALEX image not found", 1, "sdss")
    /\ (last = "loop_sdss" /\ sdss_rband_record = NoneImage) =>
           BlankAdded("SDSS rband image not found", 2, "allwise")
    /\ (last = "loop_allwise" /\ allwise_image_record = NoneImage) =>
           BlankAdded("AllWISE W1 image not found", 3, "for")

----------------------------------------------------------------------------
(* Claims on the single-galaxy selection of UseCase_II, under SpecSelect *)

\* the tests of steps 10, 13 and 14
PassesW1(rec) == IsSubstring("W1", rec.bandpass_id)
PassesGalex(rec) ==
    IsSubstring("image/fits", rec.format) /\ rec.enrValue = NuvEnrValue
PassesSdss(rec) ==
    IsSubstring("Sloan Digital Sky Survey - Filter r", rec.title)

\* C20: after each selection loop the chosen record is the first record of
\* the search result that satisfies the loop's test, and the record passed on
\* to download satisfies the test of its step.
C20_FirstSatisfyingChosen ==
    /\ (last = "select_w1" /\ err = "none") =>
           \E k \in 1..Len(allwise_image_table) :
               /\ allwise_image_record = allwise_image_table[k]
               /\ PassesW1(allwise_image_table[k])
               /\ \A j \in 1..(k - 1) : ~PassesW1(allwise_image_table[j])
    /\ (last = "select_galex" /\ err = "none") =>
           \E k \in 1..Len(galex_image_table) :
               /\ galex_image_record = galex_image_table[k]
               /\ PassesGalex(galex_image_table[k])
               /\ \A j \in 1..(k - 1) : ~PassesGalex(galex_image_table[j])
    /\ (last = "select_sdss" /\ err = "none") =>
           \E k \in 1..Len(sdss_image_table) :
               /\ sdss_rband_record = sdss_image_table[k]
               /\ PassesSdss(sdss_image_table[k])
               /\ \A j \in 1..(k - 1) : ~PassesSdss(sdss_image_table[j])
    /\ (last = "download_allwise" /\ err = "none") => PassesW1(file_name)
    /\ (last = "download_galex" /\ err = "none") => PassesGalex(file_name)
    /\ (last = "download_sdss" /\ err = "none") => PassesSdss(file_name)

----------------------------------------------------------------------------
(* Further claims on the galaxy loop of UseCase_II, under SpecLoop *)

\* rec is the first record of table that passes the W1 test, or None when
\* no record of table passes it
FirstW1OrNone(table, rec) ==
    IF \E k \in 1..Len(table) : PassesW1(table[k])
    THEN \E k \in 1..Len(table) :
             /\ rec = table[k] /\ PassesW1(table[k])
             /\ \A j \in 1..(k - 1) : ~PassesW1(table[j])
    ELSE rec = NoneImage

FirstGalexOrNone(table, rec) ==
    IF \E k \in 1..Len(table) : PassesGalex(table[k])
    THEN \E k \in 1..Len(table) :
             /\ rec = table[k] /\ PassesGalex(table[k])
             /\ \A j \in 1..(k - 1) : ~PassesGalex(table[j])
    ELSE rec = NoneImage

FirstSdssOrNone(table, rec) ==
    IF \E k \in 1..Len(table) : PassesSdss(table[k])
    THEN \E k \in 1..Len(table) :
             /\ rec = table[k] /\ PassesSdss(table[k])
             /\ \A j \in 1..(k - 1) : ~PassesSdss(table[j])
    ELSE rec = NoneImage

\* after each part of an iteration, the survey's record variable is the first
\* passing record of the search result of that part, or None
RecordsOwn ==
    /\ last = "loop_galex" =>
           FirstGalexOrNone(galex_image_table, galex_image_record)
    /\ last = "loop_sdss" =>
           FirstSdssOrNone(sdss_image_table, sdss_rband_record)
    /\ last = "loop_allwise" =>
           FirstW1OrNone(allwise_image_table, allwise_image_record)

\* C21: in every iteration the record used for a survey is the first record
\* of the iteration's own search result that passes the survey's test, or
\* None; nothing obtained for an earlier galaxy is used for a later one:
\* every subplot of the current figure is built from a cutout made at the
\* position of the current galaxy.
C21_OwnIterationOnly ==
    /\ RecordsOwn
    /\ \A k \in 1..Len(fig) :
           /\ fig[k].projection.pos = galaxy
           /\ fig[k].shown # NoCutout => fig[k].shown.pos = galaxy

----------------------------------------------------------------------------
(* The two table-name cells compared, under SpecTable *)

\* C22: run on the listing and short name the substring cell has just used,
\* the prefix cell accepts only names the substring cell accepted, and a name
\* that holds the short name only after another leading part was accepted by
\* the substring cell and is rejected by the prefix cell.
C22_PrefixRefinesSubstring ==
    [][(last = "findtable" /\ err = "none" /\ last' = "restricted") =>
           /\ Elems(printed') \subseteq Elems(printed)
           /\ \A name \in Elems(tables) :
                  (IsSubstring(short_name, name) /\ ~HasPrefix(name, short_name))
                      => (name \in Elems(printed) /\ name \notin Elems(printed'))]_vars

\* the prefix cell has kept I/90/catalog and dropped VI/90/table
C22_Witness ==
    /\ Resolved
    /\ short_name = "I/90"
    /\ "VI/90/table" \in Elems(tables)
    /\ "I/90/catalog" \in Elems(printed)
    /\ "VI/90/table" \notin Elems(printed)

----------------------------------------------------------------------------
(* Claims on the second catalogue (Raboud), under SpecRaboud *)

\* the Raboud table cell has run to its end
RaboudQueried == last = "raboudtable" /\ err = "none"

\* what the restricted prefix cell selects on the listing and short name of
\* the Raboud table cell
RestrictedChoice ==
    RestrictedLoop(tables, 1, short_name,
                   [out |-> <<>>, tablename |-> "", assigned |-> FALSE])

\* C23: the table name the Raboud table cell puts in the query has the
\* record's short name as a prefix and is the name the restricted prefix
\* match selects for that short name on the same listing.
C23_RaboudSelectsPrefix ==
    RaboudQueried =>
        /\ HasPrefix(tablename, short_name)
        /\ RestrictedChoice.assigned
        /\ tablename = RestrictedChoice.tablename
        /\ query = "SELECT * FROM \"" \o tablename \o "\""

\* C26: in the Raboud step the record whose service executes the query is the
\* record whose table list was searched for the table name, and it is the
\* record matched by the Raboud bibcode.
C26_QueryGoesToListedResource ==
    RaboudQueried =>
        /\ results.service = tables_service
        /\ tables_service \in 0..(Len(tap_services) - 1)
        /\ tap_services[tables_service + 1].source_value = bibcode
        /\ results.query = query

----------------------------------------------------------------------------
(* The two bibcode lookups compared, under SpecBib *)

\* what np.where(all_bibcodes == bibcode) of the first lookup cell gives for
\* the collection and the bibcode of the row-loop cell
ArrayMatch == WhereEqual(tap_services, bibcode, 0, <<>>)

\* C24: the index myidx the row loop finds is the first index of the array
\* comparison, and the loop finds an index exactly when the array comparison
\* finds at least one.
C24_LookupsAgree ==
    (last = "bibloop") =>
        /\ (err = "none") <=> (ArrayMatch # <<>>)
        /\ (ArrayMatch # <<>>) => (myidx = ArrayMatch[1])

----------------------------------------------------------------------------
(* Claims on the discovery pipeline, under SpecPipeline *)

\* the indices of the records that match every keyword of the keyword string
Matching ==
    {j \in 0..(Len(tap_services) - 1) :
        MatchesAll(tap_services[j + 1], KeywordSet(keywords))}

\* C25: after getrow and then getunique, every index of uniq_ind matches all
\* keywords; a short name has an index in uniq_ind exactly when some record
\* with that short name matches; and when ind is non-empty, uniq_ind is
\* non-empty and uniq_ind[0] = ind[0] is the first matching record.
C25_PipelineSound ==
    Deduplicated =>
        /\ Elems(uniq_ind) \subseteq Matching
        /\ {ShortOf(j) : j \in Elems(uniq_ind)} = {ShortOf(j) : j \in Matching}
        /\ (ind # <<>>) =>
               /\ uniq_ind # <<>>
               /\ uniq_ind[1] = ind[1]
               /\ uniq_ind[1] = Min(Matching)

\* two matching records with different short names after a search with two
\* keywords
C25_Witness ==
    /\ Deduplicated
    /\ Cardinality(KeywordSet(keywords)) = 2
    /\ Len(uniq_ind) = 2
    /\ ShortOf(uniq_ind[1]) # ShortOf(uniq_ind[2])

----------------------------------------------------------------------------
(* Algebraic claims on getrow, under SpecPipeline *)

\* a is b with some elements left out
IsSubsequence(a, b) ==
    \E f \in [1..Len(a) -> 1..Len(b)] :
        /\ \A r, q \in 1..Len(a) : r < q => f[r] < f[q]
        /\ \A r \in 1..Len(a) : a[r] = b[f[r]]

\* C27: for every keyword string with at least the keywords of the one
\* searched for, getrow on the same collection gives a subsequence of the
\* result; for every keyword string with exactly the same keywords, in any
\* order and however often written, it gives the same result.
C27_KeywordsMonotone ==
    (last = "getrow") =>
        \A kw \in KeywordStrings :
            /\ (KeywordSet(keywords) \subseteq KeywordSet(kw)) =>
                   IsSubsequence(getrow(tap_services, kw), ind)
            /\ (KeywordSet(keywords) = KeywordSet(kw)) =>
                   getrow(tap_services, kw) = ind

\* one keyword matches two records, a second keyword leaves one of them; the
\* two keywords in either order, and the one keyword written twice, change
\* nothing
C27_Witness ==
    /\ last = "getrow"
    /\ keywords = "c"
    /\ Len(ind) = 2
    /\ Len(getrow(tap_services, "m c")) = 1
    /\ getrow(tap_services, "c m") = getrow(tap_services, "m c")
    /\ getrow(tap_services, "c c") = ind

----------------------------------------------------------------------------
(* getrow without a keyword, under SpecGetrowMissing *)

\* C28: getrow called with a keyword string that holds no keyword, empty or
\* blanks only, raises no error and returns the index of every record of the
\* collection, in order.
C28_NoKeywordReturnsAll ==
    (last = "getrow" /\ KeywordSet(keywords) = {}) =>
        /\ err = "none"
        /\ "ind" \in bound
        /\ ind = [k \in 1..Len(tap_services) |-> k - 1]

\* a keyword string of blanks and a collection of two records, one of
\* them without a description
C28_Witness ==
    /\ last = "getrow"
    /\ keywords = "  "
    /\ Len(tap_services) = 2
    /\ tap_services[1].res_description = None
    /\ tap_services[2].res_description # None
    /\ ind = <<0, 1>>

----------------------------------------------------------------------------
(* Claims on the author lookup, under SpecAuthor *)

\* C29: every access URL the author lookup collects is the access_url of a
\* record of tap_services whose first creator contains the author name, and
\* the lookup completes for every record, also one without creators.
C29_AuthorLookupOnTapServices ==
    (last = "author") =>
        /\ err = "none"
        /\ \A u \in Elems(url) :
               \E k \in 1..Len(tap_services) :
                   /\ tap_services[k].access_url = u
                   /\ all_authors[k] # <<>>
                   /\ IsSubstring(author, all_authors[k][1])

----------------------------------------------------------------------------
(* Independence of the records in getrow, under SpecPipeline *)

\* the sequence seq with n added to each element
Shifted(seq, n) == [k \in 1..Len(seq) |-> seq[k] + n]

\* C30: whether getrow returns index i depends only on the description of
\* record i and the keywords: it is returned exactly when getrow returns the
\* record from the collection of that record alone; and for every way to cut
\* the collection in two, the result is the first part's result followed by
\* the second part's result shifted by the length of the first part.
C30_RecordsIndependent ==
    (last = "getrow") =>
        /\ \A i \in 0..(Len(tap_services) - 1) :
               (i \in Elems(ind)) <=>
                   (getrow(<<tap_services[i + 1]>>, keywords) = <<0>>)
        /\ \A p \in 0..Len(tap_services) :
               ind = getrow(SubSeq(tap_services, 1, p), keywords) \o
                     Shifted(getrow(SubSeq(tap_services, p + 1,
                                           Len(tap_services)), keywords), p)

\* the first record holds one of two keywords, the second holds both: a
\* counter kept from the first record would reach two too early
C30_Witness ==
    /\ last = "getrow"
    /\ Cardinality(KeywordSet(keywords)) = 2
    /\ Len(tap_services) = 2
    /\ \E key \in KeywordSet(keywords) :
           IsSubstring(key, tap_services[1].res_description)
    /\ ind = <<1>>

====
